---- MODULE Spec2Model ----
(***************************************************************************)
(* The sleepiq SDK facade (src/index.ts): one object wrapping the generic  *)
(* REST engine `core` (api/dist/core), with three configuration methods    *)
(* (config, auth, server) and fifteen operation methods, each of which is   *)
(* a single `return this.core.fetch(path, verb, ...)`.                      *)
(*                                                                         *)
(* State: the engine's configuration fields, the requests in flight, and   *)
(* what the latest step did (the call made, the requests it put on the     *)
(* network, the outcome it handed to a caller).                            *)
(***************************************************************************)
EXTENDS Integers, Sequences, FiniteSets, Bags, TLC

\* The number of operation calls whose promise is pending at one time.
MaxInFlight == 2

\* "Override the default `fetch` request timeout of 30 seconds", in ms.
DefaultTimeout == 30000
\* sleepiq.config({ timeout: 60000 })
CustomTimeout == 60000

\* An optional argument: absent (undefined) or present.
None == <<>>
Some(x) == <<x>>

VARIABLES
    coreAuth,    \* this.core: the credentials last given to setAuth
    coreServer,  \* this.core: the server last given to setServer, None before
    coreConfig,  \* this.core: the options last given to setConfig
    inflight,    \* the pending promises, a bag: they settle in any order
    call,        \* the facade call (or settlement) the latest step made
    wire,        \* the requests the latest step put on the network
    invoked,     \* the number of core.fetch invocations the latest step made
    delivered,   \* the outcome the latest step handed to a caller, None otherwise
    lastAuth,    \* the values of the caller's latest auth(...) call
    lastServer,  \* the arguments of the caller's latest server(...) call
    lastConfig   \* the argument of the caller's latest config(...) call

vars == <<coreAuth, coreServer, coreConfig, inflight, call, wire, invoked,
          delivered, lastAuth, lastServer, lastConfig>>

----------------------------------------------------------------------------
\* The inputs callers draw from.

\* sdk.auth('myBearerToken'), sdk.auth('username', 'password'), sdk.auth()
AuthValues == { <<>>, <<"myBearerToken">>, <<"username", "password">> }

\* The URLs of the two documented server(...) calls.
ServerUrls == { "https://custom-api.example.com", "https://eu.api.example.com/v14" }

\* server(url, variables = {}): the default, empty, variables object.
NoVariables == [k \in {} |-> ""]

\* ConfigOptions: {} or { timeout: 60000 }.
EmptyConfig == [k \in {} |-> 0]
ConfigValues == { EmptyConfig, [timeout |-> CustomTimeout] }

Methods ==
    { "login", "getJwt", "getAccount", "getBed", "getPauseMode", "setPauseMode",
      "stopPump", "setSleepNumber", "getFavorite", "setFavorite", "getFoundation",
      "checkOutlet", "getFootWarming", "calibrate", "executeBam" }

\* The methods whose first parameter is a request body.
BodyMethods == { "login", "setPauseMode", "setSleepNumber", "setFavorite", "executeBam" }

\* The methods that take a metadata object.
MetadataMethods == Methods \ { "login", "getJwt", "getAccount" }

\* The methods whose only parameter is the metadata object.
MetadataOnlyMethods == MetadataMethods \ BodyMethods

\* The request bodies of the documented calls, two per method.
Bodies(m) ==
    CASE m = "login" ->
           { [login |-> "a@b.com", password |-> "x"],
             [login |-> "email@example.com", password |-> "password"] }
      [] m = "setPauseMode" -> { [mode |-> "on"], [mode |-> "off"] }
      [] m = "setSleepNumber" ->
           { [side |-> "L", sleepNumber |-> 45], [side |-> "R", sleepNumber |-> 65] }
      [] m = "setFavorite" ->
           { [side |-> "R", sleepNumberFavorite |-> 65],
             [side |-> "L", sleepNumberFavorite |-> 45] }
      [] m = "executeBam" ->
           { [args |-> "command arguments", key |-> "bam-key-identifier",
              sourceApplication |-> "MyApp"],
             [args |-> "", key |-> "bam-key-identifier", sourceApplication |-> "MyApp"] }
      [] OTHER -> {}

\* The keys a caller puts in the metadata object of each method.
MetadataKeys(m) ==
    CASE m = "calibrate" -> { "sleeperId" }
      [] m = "executeBam" -> { "accountId", "bedId" }
      [] m = "checkOutlet" -> { "bedId", "outletId" }
      [] m \in MetadataMethods -> { "bedId" }
      [] OTHER -> {}

\* The values a caller gives each key.
KeyValues(k) ==
    CASE k = "bedId" -> { "123", "doesnotexist" }
      [] k = "sleeperId" -> { "sleeper-id" }
      [] k = "accountId" -> { "account-id" }
      [] k = "outletId" -> { "1" }

\* Every metadata object over a subset of the method's keys: a caller may leave
\* a key out (nothing in the facade stops an untyped caller).
Metadatas(m) ==
    UNION { { md \in [ks -> UNION { KeyValues(k) : k \in ks }] :
                \A k \in ks : md[k] \in KeyValues(k) } : ks \in SUBSET MetadataKeys(m) }

BodyArgs(m) == IF m \in BodyMethods THEN { Some(b) : b \in Bodies(m) } ELSE { None }
MetadataArgs(m) ==
    IF m \in MetadataMethods THEN { Some(md) : md \in Metadatas(m) } ELSE { None }

\* Every call of an operation method: the method and its two arguments.
OperationInputs ==
    UNION { { <<m, body, metadata>> : body \in BodyArgs(m), metadata \in MetadataArgs(m) } :
            m \in Methods }

----------------------------------------------------------------------------
\* The bound API description and the engine (api/dist/core), as far as the
\* facade's calls reach them.

\* The target of a request when server() was never called.
DefaultServer == "openapi.json#/servers/0"

\* The placeholders of the path templates, and the metadata key each names.
PlaceholderKey ==
    ("{bedId}" :> "bedId") @@ ("{sleeperId}" :> "sleeperId") @@
    ("{accountId}" :> "accountId")

IsPlaceholder(seg) == seg \in DOMAIN PlaceholderKey

PathKeys(path) ==
    { PlaceholderKey[path[i]] : i \in { j \in 1..Len(path) : IsPlaceholder(path[j]) } }

HasPlaceholder(path) == \E i \in 1..Len(path) : IsPlaceholder(path[i])

\* The operations whose description declares a request body: those whose
\* method takes a *BodyParam / *FormDataParam.
HasRequestBody(path, method) ==
    /\ method = "put"
    /\ path \in { <<"login">>,
                  <<"bed", "{bedId}", "pauseMode">>,
                  <<"bed", "{bedId}", "sleepNumber">>,
                  <<"bed", "{bedId}", "sleepNumberFavorite">>,
                  <<"sn", "v1", "accounts", "{accountId}", "beds", "{bedId}", "bamkey">> }

NoMetadata == [k \in {} |-> ""]

\* fetch(path, method, body, metadata): which argument is the request body and
\* which the parameters. With both given they are what they are called; a
\* single argument to an operation that declares no request body is its
\* parameters.
prepareParams(path, method, body, metadata) ==
    IF metadata # None
      THEN [body |-> body, metadata |-> metadata[1]]
      ELSE IF body # None /\ ~HasRequestBody(path, method)
             THEN [body |-> None, metadata |-> body[1]]
             ELSE [body |-> body, metadata |-> NoMetadata]

\* Path templating: each placeholder whose key the parameters hold is replaced
\* by the key's value; the others stay.
ResolvePath(path, params) ==
    [i \in 1..Len(path) |->
        IF IsPlaceholder(path[i]) /\ PlaceholderKey[path[i]] \in DOMAIN params
          THEN params[PlaceholderKey[path[i]]]
          ELSE path[i]]

\* The parameters that are not path parameters travel in the query string.
QueryOf(path, params) ==
    [k \in DOMAIN params \ PathKeys(path) |-> params[k]]

TargetOf(srv) == IF srv = None THEN DefaultServer ELSE srv[1].url

TimeoutOf(cfg) == IF "timeout" \in DOMAIN cfg THEN cfg.timeout ELSE DefaultTimeout

\* A promise whose request was never sent.
Unsent == [sent |-> FALSE, cred |-> <<>>, target |-> "", onRejected |-> None]

core_setConfig(cfg, st) == [st EXCEPT !.config = cfg]

core_setAuth(values, st) == [st EXCEPT !.auth = values]

core_setServer(url, variables, st) ==
    [st EXCEPT !.server = Some([url |-> url, variables |-> variables])]

\* One engine invocation: prepare the parameters, build the request from them
\* and from the configuration as it is now, send it, and return the promise,
\* which keeps the credentials and the target its request went out with.
\* What the engine does when a placeholder stays unresolved is not the
\* facade's: st.sendsUnresolved leaves both outcomes open (the request goes
\* out as it is, or the promise is rejected and nothing is sent).
core_fetch(path, method, body, metadata, st) ==
    LET p == prepareParams(path, method, body, metadata)
        url == ResolvePath(path, p.metadata)
        sent == ~HasPlaceholder(url) \/ st.sendsUnresolved
        req == [verb |-> method, template |-> path, path |-> url,
                query |-> QueryOf(path, p.metadata), body |-> p.body,
                args |-> <<body, metadata>>,
                cred |-> st.auth, target |-> TargetOf(st.server),
                timeout |-> TimeoutOf(st.config)]
        promise == IF sent
                     THEN [sent |-> TRUE, cred |-> req.cred, target |-> req.target,
                           onRejected |-> None]
                     ELSE Unsent
    IN  [st EXCEPT !.invoked = @ + 1,
                   !.wire = IF sent THEN Append(@, req) ELSE @,
                   !.returned = Append(@, promise)]

\* What the network, or the engine itself, answers a pending promise with.
NetworkResponses ==
    { [kind |-> "response", status |-> Some(200), data |-> Some("key=abc123")],
      [kind |-> "response", status |-> Some(201), data |-> Some("created")],
      [kind |-> "response", status |-> Some(404), data |-> Some("not found")],
      [kind |-> "response", status |-> Some(500), data |-> Some("server error")],
      [kind |-> "transportError", status |-> None, data |-> None],
      [kind |-> "timeout", status |-> None, data |-> None] }

ParameterError == [kind |-> "parameterError", status |-> None, data |-> None]

\* The engine settles the promise: a 2xx response resolves it with the response
\* wrapper, anything else rejects it with what is available.
EngineOutcome(res) ==
    IF res.kind = "response" /\ res.status[1] \in 200..299
      THEN [state |-> "resolved", status |-> res.status, data |-> res.data]
      ELSE [state |-> "rejected", status |-> res.status, data |-> res.data]

\* The caller's outcome: the engine's, through the handler chained on the
\* promise if there is one.
CallerOutcome(promise, outcome) ==
    IF promise.onRejected # None /\ outcome.state = "rejected"
      THEN [state |-> "resolved", status |-> None, data |-> promise.onRejected]
      ELSE outcome

----------------------------------------------------------------------------
\* The facade: class SDK of src/index.ts. Each method takes the engine's state
\* and gives the state after its one statement.

\* config, as it would be were the engine built anew on every call.
config_recreatesCore(cfg, st) ==
    core_setConfig(cfg, [st EXCEPT !.auth = <<>>, !.server = None])

config(cfg, st) == core_setConfig(cfg, st)

\* auth, as it would be without the spread of its rest parameter.
auth_firstValueOnly(values, st) ==
    core_setAuth(IF values = <<>> THEN values ELSE <<values[1]>>, st)

auth(values, st) == core_setAuth(values, st)

\* server, as it would be with its one statement left out.
server_notForwarded(url, variables, st) == st

server(url, variables, st) == core_setServer(url, variables, st)

\* login, as it would be if it kept the caller's credentials for later requests.
login_storesCredentials(body, st) ==
    core_fetch(<<"login">>, "put", Some(body), None,
               core_setAuth(<<body.login, body.password>>, st))

login(body, st) == core_fetch(<<"login">>, "put", Some(body), None, st)

\* getJwt, as it would be if it fetched a second time.
getJwt_fetchesTwice(st) ==
    core_fetch(<<"user", "jwt">>, "get", None, None,
               core_fetch(<<"user", "jwt">>, "get", None, None, st))

getJwt(st) == core_fetch(<<"user", "jwt">>, "get", None, None, st)

getAccount(st) == core_fetch(<<"account">>, "get", None, None, st)

\* getBed, as it would be with the path of getPauseMode.
getBed_wrongPath(metadata, st) ==
    core_fetch(<<"bed", "{bedId}", "pauseMode">>, "get", Some(metadata), None, st)

\* getBed, as it would be with a handler turning a rejection into a default.
getBed_catches(metadata, st) ==
    LET after == core_fetch(<<"bed", "{bedId}">>, "get", Some(metadata), None, st)
    IN  [after EXCEPT !.returned[Len(after.returned)].onRejected = Some("default")]

getBed(metadata, st) ==
    core_fetch(<<"bed", "{bedId}">>, "get", Some(metadata), None, st)

getPauseMode(metadata, st) ==
    core_fetch(<<"bed", "{bedId}", "pauseMode">>, "get", Some(metadata), None, st)

setPauseMode(body, metadata, st) ==
    core_fetch(<<"bed", "{bedId}", "pauseMode">>, "put", Some(body), Some(metadata), st)

\* stopPump, as it would be with an explicit, empty, metadata argument.
stopPump_explicitMetadata(metadata, st) ==
    core_fetch(<<"bed", "{bedId}", "pump", "forceIdle">>, "put", Some(metadata),
               Some(NoMetadata), st)

stopPump(metadata, st) ==
    core_fetch(<<"bed", "{bedId}", "pump", "forceIdle">>, "put", Some(metadata), None, st)

setSleepNumber(body, metadata, st) ==
    core_fetch(<<"bed", "{bedId}", "sleepNumber">>, "put", Some(body), Some(metadata), st)

getFavorite(metadata, st) ==
    core_fetch(<<"bed", "{bedId}", "sleepNumberFavorite">>, "get", Some(metadata), None, st)

setFavorite(body, metadata, st) ==
    core_fetch(<<"bed", "{bedId}", "sleepNumberFavorite">>, "put", Some(body),
               Some(metadata), st)

getFoundation(metadata, st) ==
    core_fetch(<<"bed", "{bedId}", "foundation", "status">>, "get", Some(metadata), None, st)

checkOutlet(metadata, st) ==
    core_fetch(<<"bed", "{bedId}", "foundation", "outlet">>, "get", Some(metadata), None, st)

getFootWarming(metadata, st) ==
    core_fetch(<<"bed", "{bedId}", "foundation", "footwarming">>, "get", Some(metadata),
               None, st)

calibrate(metadata, st) ==
    core_fetch(<<"sleeper", "{sleeperId}", "calibrate">>, "put", Some(metadata), None, st)

\* executeBam, as it would be without its metadata argument forwarded.
executeBam_dropsMetadata(body, metadata, st) ==
    core_fetch(<<"sn", "v1", "accounts", "{accountId}", "beds", "{bedId}", "bamkey">>,
               "put", Some(body), None, st)

executeBam(body, metadata, st) ==
    core_fetch(<<"sn", "v1", "accounts", "{accountId}", "beds", "{bedId}", "bamkey">>,
               "put", Some(body), Some(metadata), st)

\* The caller invokes method m with the arguments its signature takes.
Invoke(m, body, metadata, st) ==
    CASE m = "login" -> login(body[1], st)
      [] m = "getJwt" -> getJwt(st)
      [] m = "getAccount" -> getAccount(st)
      [] m = "getBed" -> getBed(metadata[1], st)
      [] m = "getPauseMode" -> getPauseMode(metadata[1], st)
      [] m = "setPauseMode" -> setPauseMode(body[1], metadata[1], st)
      [] m = "stopPump" -> stopPump(metadata[1], st)
      [] m = "setSleepNumber" -> setSleepNumber(body[1], metadata[1], st)
      [] m = "getFavorite" -> getFavorite(metadata[1], st)
      [] m = "setFavorite" -> setFavorite(body[1], metadata[1], st)
      [] m = "getFoundation" -> getFoundation(metadata[1], st)
      [] m = "checkOutlet" -> checkOutlet(metadata[1], st)
      [] m = "getFootWarming" -> getFootWarming(metadata[1], st)
      [] m = "calibrate" -> calibrate(metadata[1], st)
      [] m = "executeBam" -> executeBam(body[1], metadata[1], st)

----------------------------------------------------------------------------
\* The state machine.

\* The engine's state as a step finds it: nothing invoked, sent or returned
\* yet by the step itself.
State(sendsUnresolved) ==
    [auth |-> coreAuth, server |-> coreServer, config |-> coreConfig,
     wire |-> <<>>, invoked |-> 0, returned |-> <<>>,
     sendsUnresolved |-> sendsUnresolved]

\* The promises a step returned, as a bag.
BagOf(promises) ==
    LET present == { promises[i] : i \in 1..Len(promises) }
    IN  [p \in present |-> Cardinality({ i \in 1..Len(promises) : promises[i] = p })]

Commit(st) ==
    /\ coreAuth' = st.auth
    /\ coreServer' = st.server
    /\ coreConfig' = st.config
    /\ inflight' = inflight (+) BagOf(st.returned)
    /\ wire' = st.wire
    /\ invoked' = st.invoked

CallOf(kind, m, body, metadata, arg) ==
    [kind |-> kind, method |-> m, body |-> body, metadata |-> metadata, arg |-> arg]

\* const createSDK = (() => { return new SDK(); })()
Init ==
    /\ coreAuth = <<>>
    /\ coreServer = None
    /\ coreConfig = EmptyConfig
    /\ inflight = EmptyBag
    /\ call = CallOf("new", "", None, None, None)
    /\ wire = <<>>
    /\ invoked = 0
    /\ delivered = None
    /\ lastAuth = <<>>
    /\ lastServer = None
    /\ lastConfig = EmptyConfig

Config ==
    \E cfg \in ConfigValues :
        /\ Commit(config(cfg, State(FALSE)))
        /\ call' = CallOf("config", "", None, None, Some(cfg))
        /\ lastConfig' = cfg
        /\ delivered' = None
        /\ UNCHANGED <<lastAuth, lastServer>>

Auth ==
    \E values \in AuthValues :
        /\ Commit(auth(values, State(FALSE)))
        /\ call' = CallOf("auth", "", None, None, Some(values))
        /\ lastAuth' = values
        /\ delivered' = None
        /\ UNCHANGED <<lastServer, lastConfig>>

Server ==
    \E url \in ServerUrls :
        /\ Commit(server(url, NoVariables, State(FALSE)))
        /\ call' = CallOf("server", "", None, None, Some(url))
        /\ lastServer' = Some(url)
        /\ delivered' = None
        /\ UNCHANGED <<lastAuth, lastConfig>>

\* A caller invokes one operation method; its promise is now pending.
Operation ==
    /\ BagCardinality(inflight) < MaxInFlight
    /\ \E input \in OperationInputs, sends \in BOOLEAN :
         LET m == input[1]
             body == input[2]
             metadata == input[3]
         IN  /\ Commit(Invoke(m, body, metadata, State(sends)))
             /\ call' = CallOf("operation", m, body, metadata, None)
             /\ delivered' = None
             /\ UNCHANGED <<lastAuth, lastServer, lastConfig>>

\* A pending promise settles, in any order, and its caller gets the outcome.
Settle ==
    \E promise \in BagToSet(inflight) :
        \E res \in NetworkResponses \cup { ParameterError } :
            /\ promise.sent <=> res \in NetworkResponses
            /\ inflight' = inflight (-) SetToBag({ promise })
            /\ delivered' = Some([response |-> res,
                                  outcome |-> CallerOutcome(promise, EngineOutcome(res))])
            /\ call' = CallOf("settle", "", None, None, None)
            /\ wire' = <<>>
            /\ invoked' = 0
            /\ UNCHANGED <<coreAuth, coreServer, coreConfig, lastAuth, lastServer, lastConfig>>

Next == Config \/ Auth \/ Server \/ Operation \/ Settle

Spec == Init /\ [][Next]_vars

----------------------------------------------------------------------------
\* The properties.

\* The table of operations the specification gives: verb and path template.
SpecOperations ==
    ("login" :> <<"put", <<"login">>>>) @@
    ("getJwt" :> <<"get", <<"user", "jwt">>>>) @@
    ("getAccount" :> <<"get", <<"account">>>>) @@
    ("getBed" :> <<"get", <<"bed", "{bedId}">>>>) @@
    ("getPauseMode" :> <<"get", <<"bed", "{bedId}", "pauseMode">>>>) @@
    ("setPauseMode" :> <<"put", <<"bed", "{bedId}", "pauseMode">>>>) @@
    ("stopPump" :> <<"put", <<"bed", "{bedId}", "pump", "forceIdle">>>>) @@
    ("setSleepNumber" :> <<"put", <<"bed", "{bedId}", "sleepNumber">>>>) @@
    ("getFavorite" :> <<"get", <<"bed", "{bedId}", "sleepNumberFavorite">>>>) @@
    ("setFavorite" :> <<"put", <<"bed", "{bedId}", "sleepNumberFavorite">>>>) @@
    ("getFoundation" :> <<"get", <<"bed", "{bedId}", "foundation", "status">>>>) @@
    ("checkOutlet" :> <<"get", <<"bed", "{bedId}", "foundation", "outlet">>>>) @@
    ("getFootWarming" :> <<"get", <<"bed", "{bedId}", "foundation", "footwarming">>>>) @@
    ("calibrate" :> <<"put", <<"sleeper", "{sleeperId}", "calibrate">>>>) @@
    ("executeBam" :>
        <<"put", <<"sn", "v1", "accounts", "{accountId}", "beds", "{bedId}", "bamkey">>>>)

IsOperation == call.kind = "operation"

\* The metadata object of the latest call, empty when the method takes none.
CallMetadata == IF call.metadata = None THEN NoMetadata ELSE call.metadata[1]

\* The latest call's metadata holds every path parameter of its operation.
MetadataComplete ==
    PathKeys(SpecOperations[call.method][2]) \subseteq DOMAIN CallMetadata

Sent == { wire[i] : i \in 1..Len(wire) }

Pending == BagToSet(inflight)

C2_ServerTargetedUntilChanged ==
    IsOperation =>
        \A r \in Sent :
            r.target = IF lastServer = None THEN DefaultServer ELSE lastServer[1]

\* A request goes to the second URL while one sent to the first is still
\* pending.
C2_Witness ==
    /\ IsOperation
    /\ \E r \in Sent : r.target = "https://eu.api.example.com/v14"
    /\ \E p \in Pending : p.sent /\ p.target = "https://custom-api.example.com"

\* C3: every operation method dispatches the verb and path template the
\* specification's table gives for it, with the caller's body unchanged (and
\* no body for the methods that take none); with its path parameters given
\* exactly one request goes out; getBed({bedId: b}) is GET /bed/b and
\* setPauseMode(body, {bedId: b}) is PUT /bed/b/pauseMode with that body.
C3_FixedVerbAndPath ==
    IsOperation =>
        /\ MetadataComplete => Len(wire) = 1
        /\ \A r \in Sent :
            /\ r.verb = SpecOperations[call.method][1]
            /\ r.template = SpecOperations[call.method][2]
            /\ r.body = IF call.method \in BodyMethods THEN call.body ELSE None
            /\ (call.method = "getBed" /\ MetadataComplete)
                 => r.verb = "get" /\ r.path = <<"bed", CallMetadata.bedId>>
            /\ (call.method = "setPauseMode" /\ MetadataComplete)
                 => /\ r.verb = "put"
                    /\ r.path = <<"bed", CallMetadata.bedId, "pauseMode">>
                    /\ r.body = call.body

\* setPauseMode({mode: "on"}, {bedId: "123"}) went out as PUT /bed/123/pauseMode.
C3_Witness ==
    /\ IsOperation
    /\ call.method = "setPauseMode"
    /\ call.body = Some([mode |-> "on"])
    /\ Len(wire) = 1
    /\ wire[1].verb = "put"
    /\ wire[1].path = <<"bed", "123", "pauseMode">>
    /\ wire[1].body = Some([mode |-> "on"])

\* C4: when the metadata holds every path parameter of the operation's
\* template, the request goes out and its path has no placeholder left.
C4_NoPlaceholderLeft ==
    (IsOperation /\ MetadataComplete) =>
        /\ Len(wire) = 1
        /\ \A r \in Sent : ~HasPlaceholder(r.path)

\* executeBam with both of its path parameters.
C4_Witness ==
    /\ IsOperation
    /\ call.method = "executeBam"
    /\ MetadataComplete
    /\ Len(wire) = 1
    /\ wire[1].path = <<"sn", "v1", "accounts", "account-id", "beds", "123", "bamkey">>

\* A failure: no response, or a response whose status is not 2xx.
IsFailure(res) == res.kind # "response" \/ res.status[1] \notin 200..299

\* C6: every failure (transport error, non-2xx response, timeout) reaches the
\* caller as a rejection with the status and body that are available, and only
\* a 2xx response resolves: no failure becomes a result or a default value.
C6_FailuresRejected ==
    delivered # None =>
        LET d == delivered[1]
        IN  /\ IsFailure(d.response) =>
                /\ d.outcome.state = "rejected"
                /\ d.outcome.status = d.response.status
                /\ d.outcome.data = d.response.data
            /\ d.outcome.state = "resolved" =>
                /\ ~IsFailure(d.response)
                /\ d.outcome.status = d.response.status
                /\ d.outcome.data = d.response.data

\* A 404 reaches the caller as a rejection whose status is 404.
C6_Witness ==
    /\ delivered # None
    /\ delivered[1].response.status = Some(404)
    /\ delivered[1].outcome.state = "rejected"
    /\ delivered[1].outcome.status = Some(404)

\* C7: one call of an operation method makes at most one engine invocation and
\* puts at most one request on the network; the settlement of a promise,
\* failed or not, invokes nothing and sends nothing.
C7_AtMostOneRequest ==
    /\ IsOperation => invoked <= 1 /\ Len(wire) <= 1
    /\ call.kind = "settle" => invoked = 0 /\ wire = <<>>

\* A request failed with status 500 and nothing was sent again.
C7_Witness ==
    /\ call.kind = "settle"
    /\ delivered # None
    /\ delivered[1].response.status = Some(500)
    /\ delivered[1].outcome.state = "rejected"
    /\ wire = <<>>
    /\ inflight = EmptyBag

\* C8: an operation call and its settlement, successful or not, leave the
\* engine's credentials, server and options as they were.
C8_OperationsKeepConfiguration ==
    [][call'.kind \in { "operation", "settle" }
         => UNCHANGED <<coreAuth, coreServer, coreConfig>>]_vars

\* A 200 answer carrying a key was delivered and no credentials are set.
C8_Witness ==
    /\ call.kind = "settle"
    /\ delivered # None
    /\ delivered[1].outcome.state = "resolved"
    /\ delivered[1].outcome.data = Some("key=abc123")
    /\ coreAuth = <<>>
    /\ lastAuth = <<>>

\* C9: a request is built from the configuration as the caller's config, auth
\* and server calls have left it when it is dispatched, and a configuration
\* call changes no request already in flight.
C9_ConfigurationReadAtDispatch ==
    /\ [](IsOperation =>
            \A r \in Sent :
                /\ r.cred = lastAuth
                /\ r.target = (IF lastServer = None THEN DefaultServer ELSE lastServer[1])
                /\ r.timeout = TimeoutOf(lastConfig))
    /\ [][call'.kind \in { "config", "auth", "server" } => inflight' = inflight]_vars

\* Two requests in flight that differ in credentials and target, the newer
\* one sent with the new timeout: the configuration changed between their
\* dispatches.
C9_Witness ==
    /\ IsOperation
    /\ \E new, old \in Pending :
          /\ new.sent /\ old.sent
          /\ \E r \in Sent :
                new.cred = r.cred /\ new.target = r.target /\ r.timeout = CustomTimeout
          /\ old.cred # new.cred
          /\ old.target # new.target

====
